---- MODULE Spec2Model ----
(***************************************************************************)
(* Model of the interactive terminal-session authentication bridge of the  *)
(* gateway: class GeminiAuthenticator of src/app.py, the module start-up   *)
(* code that constructs it, and the HTTP handlers that call it.            *)
(*                                                                         *)
(* A session is a child process together with the master side of its       *)
(* pseudo-terminal.  Sessions are numbered 1, 2, ... in the order in which  *)
(* start_auth_flow spawns them; session s owns child s, descriptor s and   *)
(* monitor thread s.  Python's None is modelled by None, an attribute that *)
(* was never assigned (master_fd is not set by __init__) by Unset.         *)
(***************************************************************************)
EXTENDS Integers, Sequences, FiniteSets, TLC

\* ------------------------------------------------------------------ bounds

\* Sessions that start_auth_flow may spawn in one run of the model.
MaxSessions == 2
\* Chunks of output that all children together emit in one run of the model.
MaxChunks == 1
\* Iterations of submit_code's polling loop that fit in its timeout window
\* (the code's 30 s window polled every 0.5 s, scaled down).
TimeoutPolls == 1

\* ------------------------------------------------------- values and threads

None == 0
Unset == -1

Sessions == 1..MaxSessions

\* The thread that imports the module (start-up), the request threads, and
\* the thread that serves /api/auth/terminate while another request is
\* being served.
MainThread == 1
RequestThreads == {2}
TerminateThread == 3
AllThreads == {MainThread} \union RequestThreads \union {TerminateThread}


\* ------------------------------------------------------- Credential Probe

\* Python's None in the text-valued fields auth_url and credentials_path.
NoneStr == "None"

oauth_creds_path == "~/.gemini/oauth_creds.json"
settings_path == "~/.gemini/settings.json"
accounts_path == "~/.gemini/google_accounts.json"

\* A file is missing, unreadable (open raises PermissionError), or has a text.
Missing == "<missing>"
Unreadable == "<unreadable>"
OAuthTexts ==
    {"", " ", "{bad", "5", "[access_token]", "{}", "{access_token}",
     "{refresh_token}", "{id_token}"}
AccountsTexts == {"", "{bad", "[active]", "{}", "{active:''}", "{active:a@b}"}
SettingsTexts == {"{}"}

\* os.path.isfile
isfile(f) == f # Missing

\* str.strip of the texts above
strip(text) == IF text = " " THEN "" ELSE text

\* json.loads: the exception it raises ("" when none) and the value parsed.
\* keys: the keys of an object or the items of an array; active: the value
\* of the key "active".
json_loads(text) ==
    CASE text = "{}"              -> [exc |-> "", type |-> "dict", keys |-> {}, active |-> ""]
      [] text = "{access_token}"  -> [exc |-> "", type |-> "dict", keys |-> {"access_token"}, active |-> ""]
      [] text = "{refresh_token}" -> [exc |-> "", type |-> "dict", keys |-> {"refresh_token"}, active |-> ""]
      [] text = "{id_token}"      -> [exc |-> "", type |-> "dict", keys |-> {"id_token"}, active |-> ""]
      [] text = "{active:''}"     -> [exc |-> "", type |-> "dict", keys |-> {"active"}, active |-> ""]
      [] text = "{active:a@b}"    -> [exc |-> "", type |-> "dict", keys |-> {"active"}, active |-> "a@b"]
      [] text = "[access_token]"  -> [exc |-> "", type |-> "list", keys |-> {"access_token"}, active |-> ""]
      [] text = "[active]"        -> [exc |-> "", type |-> "list", keys |-> {"active"}, active |-> ""]
      [] text = "5"               -> [exc |-> "", type |-> "int", keys |-> {}, active |-> ""]
      [] OTHER                    -> [exc |-> "JSONDecodeError", type |-> "", keys |-> {}, active |-> ""]

\* open(path).read().strip() followed by json.loads
read_json(f) ==
    IF f = Unreadable
    THEN [exc |-> "PermissionError", type |-> "", keys |-> {}, active |-> ""]
    ELSE json_loads(strip(f))

\* `k in data`: "yes", "no", or the exception raised (an int has no `in`)
contains(k, data) ==
    IF data.type = "int" THEN "TypeError"
    ELSE IF k \in data.keys THEN "yes" ELSE "no"

\* A handler that catches a parse error only (`except json.JSONDecodeError:`).
ExceptJSONDecodeError(exc) == exc = "JSONDecodeError"

\* `except Exception:` of lines 138 and 152 catches every exception a read,
\* a parse or a lookup raises.
ExceptException(exc) == exc # ""

\* Lines 128-139: "true" (line 137 returns True), "next" (falls through to the
\* fallback), or the exception that leaves the block.
PrimaryBlock(oauth) ==
    LET body ==
          IF ~isfile(oauth) THEN "next"
          ELSE LET data == read_json(oauth) IN
               IF data.exc # "" THEN data.exc
               ELSE IF data.type = "int" THEN "TypeError"
               ELSE IF \E k \in {"access_token", "refresh_token"} : contains(k, data) = "yes"
                    THEN "true" ELSE "next"
    IN  IF body \in {"true", "next"} THEN body
        ELSE IF ExceptException(body) THEN "next" ELSE body

\* Lines 142-153 without the reads: the fallback reports an account whatever
\* the two files hold.
FallbackBlock_NoRead(settings, accounts) == "true"

\* Lines 142-153, likewise.
FallbackBlock(settings, accounts) ==
    LET body ==
          IF ~(isfile(settings) /\ isfile(accounts)) THEN "next"
          ELSE LET data == read_json(accounts) IN
               IF data.exc # "" THEN data.exc
               ELSE IF contains("active", data) = "TypeError" THEN "TypeError"
               ELSE IF contains("active", data) = "no" THEN "next"
               \* accounts_data['active'] on a list raises TypeError
               ELSE IF data.type # "dict" THEN "TypeError"
               ELSE IF data.active # "" THEN "true" ELSE "next"
    IN  IF body \in {"true", "next"} THEN body
        ELSE IF ExceptException(body) THEN "next" ELSE body

\* check_auth_status as a function of the files: the exception that leaves
\* the call ("" when none), the value returned, and the values assigned to
\* is_authenticated and credentials_path.
Probe(fs) ==
    LET p == PrimaryBlock(fs.oauth)
        f == FallbackBlock(fs.settings, fs.accounts)
        \* lines 119-156: what leaves the outer try block
        body == IF p # "next" THEN p ELSE f
    IN  IF body = "true" /\ p = "true"
          THEN [exc |-> "", ret |-> TRUE, path |-> oauth_creds_path]
        ELSE IF body = "true"
          THEN [exc |-> "", ret |-> TRUE, path |-> accounts_path]
        ELSE IF body = "next" \/ ExceptException(body)
          \* lines 158-160
          THEN [exc |-> "", ret |-> FALSE, path |-> NoneStr]
        ELSE [exc |-> body, ret |-> FALSE, path |-> NoneStr]


\* ------------------------------------------------------- terminal output

\* Lines of the child's output, after ANSI stripping.
MenuLine == "1. Login with Google"
UrlLineA == "open https://accounts.google.com/o/oauth2/v2/auth?a"
UrlLineB == "open https://accounts.google.com/o/oauth2/v2/auth?b"
DocsLine == "see https://geminicli.example/docs"
SuccessLine == "no sandbox (see /docs)"

\* What one os.read returns: a sequence of lines (output.splitlines()).
Chunks == {<<MenuLine>>, <<UrlLineA, UrlLineB>>, <<DocsLine>>, <<SuccessLine>>}

\* "Login with Google" in clean_line (line 244)
has_menu(line) == line = MenuLine

\* url_pattern.search(clean_line).group(1), NoneStr when there is no match
found_url(line) ==
    CASE line = UrlLineA -> "https://accounts.google.com/o/oauth2/v2/auth?a"
      [] line = UrlLineB -> "https://accounts.google.com/o/oauth2/v2/auth?b"
      [] line = DocsLine -> "https://geminicli.example/docs"
      [] OTHER -> NoneStr

\* "google.com" in found_url or "accounts" in found_url (line 259)
is_login_url(url) ==
    url \in {"https://accounts.google.com/o/oauth2/v2/auth?a",
             "https://accounts.google.com/o/oauth2/v2/auth?b"}

\* any(indicator in clean_output for indicator in success_indicators)
has_success_indicator(chunk) ==
    \E i \in 1..Len(chunk) : chunk[i] = SuccessLine

\* ------------------------------------------------------------------ state

VARIABLES
    \* fields of the authenticator object
    auth_process,       \* None or the session whose child it is
    master_fd,          \* Unset, None or the session whose descriptor it is
    auth_url,           \* NoneStr or the URL recorded
    is_authenticated,
    credentials_path,   \* NoneStr or a path
    auth_lock,          \* None or the thread that holds the lock
    \* the environment
    files,              \* the three credential files
    nsessions,          \* terminal pairs opened so far (the last may be that
                        \* of a launch that failed)
    running,            \* the sessions whose child has not exited
    open_fds,           \* the sessions whose master descriptor is open
    pty_out,            \* chunks the child of the latest session has
                        \* written and nobody has read
    emitted,            \* chunks emitted so far
    menu_keys,          \* number of "1\n" written to the descriptor of the
                        \* latest session
    menu_shown,         \* the child of the latest session has printed the
                        \* menu phrase
    \* the monitor thread of each session (_monitor_output)
    mon_pc, menu_handled, mon_lines,
    \* the main thread and the request threads: where each is, the locals of
    \* the call it is in, and what its last call returned
    pc, frame, result

obj == <<auth_process, master_fd, auth_url, is_authenticated, credentials_path,
         auth_lock>>
env == <<files, nsessions, running, open_fds, pty_out, emitted, menu_keys, menu_shown>>
mon == <<mon_pc, menu_handled, mon_lines>>
thr == <<pc, frame, result>>
vars == <<obj, env, mon, thr>>

\* Results of a call: a returned (success flag, message) pair or value, or
\* the exception that propagated to the caller.
NoResult == [exc |-> "", ok |-> FALSE, msg |-> "<running>"]
Returned(ok, msg) == [exc |-> "", ok |-> ok, msg |-> msg]
Raised(e) == [exc |-> e, ok |-> FALSE, msg |-> "<raised>"]

\* The locals of a call:
\*   op        the operation called
\*   cont      the call site of the helper (check_auth_status or
\*             _cleanup_process) the thread is in, or was in last
\*   polls     iterations of submit_code's polling loop completed
\*   probed    the path check_auth_status found ("unset" before it has read)
\*   wrote_fd  the descriptor submit_code wrote the code to
\*   cleaned   the call has entered _cleanup_process
\*   code      the argument of submit_code
\*   writes    the byte strings submit_code has written to the terminal
\*             (for generate: the lines written to the response)
\*   stdout    for generate: the lines its child printed
\*   stream    for generate: the request asked for a streamed response
NoFrame ==
    [op |-> "none", cont |-> "none", polls |-> 0, probed |-> "unset",
     wrote_fd |-> None, cleaned |-> FALSE, code |-> <<>>, writes |-> <<>>,
     stdout |-> <<>>, stream |-> FALSE]

\* The credential files at start-up.
StartFiles ==
    {[oauth |-> o, settings |-> Missing, accounts |-> Missing] :
        o \in {Missing, "{access_token}"}}

\* __init__ (lines 109-114): master_fd is not assigned.
InitObject ==
    /\ auth_process = None
    /\ master_fd = Unset
    /\ auth_url = NoneStr
    /\ is_authenticated = FALSE
    /\ credentials_path = NoneStr
    /\ auth_lock = None

InitEnv ==
    /\ nsessions = 0
    /\ running = {}
    /\ open_fds = {}
    /\ pty_out = <<>>
    /\ emitted = 0
    /\ menu_keys = 0
    /\ menu_shown = FALSE
    /\ mon_pc = [s \in Sessions |-> "none"]
    /\ menu_handled = [s \in Sessions |-> FALSE]
    /\ mon_lines = [s \in Sessions |-> <<>>]

\* The main thread is about to run line 397; no request is being handled.
InitThreads ==
    /\ pc = [t \in AllThreads |-> IF t = MainThread THEN "cas_read" ELSE "idle"]
    /\ frame = [t \in AllThreads |->
          IF t = MainThread
          THEN [NoFrame EXCEPT !.op = "startup", !.cont = "startup"]
          ELSE NoFrame]
    /\ result = [t \in AllThreads |-> NoResult]

Init ==
    /\ InitObject
    /\ InitEnv
    /\ InitThreads
    /\ files \in StartFiles

\* Thread t goes to label l, its locals unchanged but for polls, probed, ...
Goto(t, l) ==
    /\ pc' = [pc EXCEPT ![t] = l]
    /\ UNCHANGED <<frame, result>>

\* Thread t goes to label l at call site c of a helper.
GotoAt(t, l, c) ==
    /\ pc' = [pc EXCEPT ![t] = l]
    /\ frame' = [frame EXCEPT ![t].cont = c]
    /\ UNCHANGED result

\* The call of thread t ends with r; its locals are gone (op and cont stay,
\* to tell which call and which path r comes from).
Return(t, r) ==
    /\ pc' = [pc EXCEPT ![t] = "done"]
    /\ frame' = [frame EXCEPT ![t] =
          [NoFrame EXCEPT !.op = frame[t].op, !.cont = frame[t].cont]]
    /\ result' = [result EXCEPT ![t] = r]

\* Likewise, with cont set to the path taken.
ReturnVia(t, path, r) ==
    /\ pc' = [pc EXCEPT ![t] = "done"]
    /\ frame' = [frame EXCEPT ![t] =
          [NoFrame EXCEPT !.op = frame[t].op, !.cont = path]]
    /\ result' = [result EXCEPT ![t] = r]

\* An exception caught at line 373 of submit_code: cleanup follows (376).
ScExcept(t) ==
    /\ pc' = [pc EXCEPT ![t] = "lock_cleanup"]
    /\ frame' = [frame EXCEPT ![t].cont = "sc_exc"]
    /\ UNCHANGED result

\* ------------------------------------------------------- check_auth_status

\* Lines 363-371 without the fallback: the probe's answer is ignored and the
\* call always returns "pending".
AfterFallbackProbe_NoFallback(t, v) ==
    Return(t, Returned(TRUE, "Code submitted. Verifying..."))

\* Lines 363-371 with a cleanup on both branches.
AfterFallbackProbe_CleanUpAnyway(t, v) ==
    Goto(t, "lock_cleanup")

\* Lines 363-371 of submit_code: the probe confirms and cleanup follows, or
\* the call returns "pending".
AfterFallbackProbe(t, v) ==
    IF v
    THEN Goto(t, "lock_cleanup")
    ELSE Return(t, Returned(TRUE, "Code submitted. Verifying..."))

\* Lines 398-402 with the test left out: a session is always started.
AfterStartupProbe_AlwaysStarts(t) == Goto(t, "saf")

\* Lines 398-402: start-up reads the field, not the value returned, and
\* starts a session when it is false.
AfterStartupProbe(t) ==
    IF ~is_authenticated'
    THEN Goto(t, "saf")
    ELSE Return(t, Returned(TRUE, "Initial Auth Check Passed."))

\* What follows the return of check_auth_status with value v at each of its
\* call sites.
AfterProbe(t, v) ==
    CASE frame[t].cont = "startup" ->
           AfterStartupProbe(t) /\ UNCHANGED auth_lock
      [] frame[t].cont = "submit" ->
           AfterFallbackProbe(t, v) /\ UNCHANGED auth_lock
      [] frame[t].cont = "terminate" ->
           \* lines 388-392, then the lock is released
           /\ Return(t, IF v THEN Returned(TRUE, "Process terminated. Authentication successful.")
                             ELSE Returned(FALSE, "Process terminated. Authentication failed."))
           /\ auth_lock' = None
      [] OTHER ->
           \* a direct call
           Return(t, Returned(v, "<bool>")) /\ UNCHANGED auth_lock

\* An exception e leaves check_auth_status in thread t.
ProbeRaises(t, e) ==
    IF frame[t].cont = "submit"
    THEN ScExcept(t) /\ UNCHANGED auth_lock
    ELSE /\ Return(t, Raised(e))
         /\ auth_lock' = IF auth_lock = t THEN None ELSE auth_lock

\* Lines 119-158: the files are read and is_authenticated is assigned.
CasRead(t) ==
    /\ pc[t] = "cas_read"
    /\ LET r == Probe(files) IN
       IF r.exc # ""
       THEN /\ ProbeRaises(t, r.exc)
            /\ UNCHANGED is_authenticated
       ELSE /\ is_authenticated' = r.ret
            /\ pc' = [pc EXCEPT ![t] = "cas_path"]
            /\ frame' = [frame EXCEPT ![t].probed = r.path]
            /\ UNCHANGED <<result, auth_lock>>
    /\ UNCHANGED <<auth_process, master_fd, auth_url, credentials_path>>
    /\ UNCHANGED <<env, mon>>

\* Lines 136-137, 150-151, 159-160: credentials_path is assigned and the
\* call returns.
CasPath(t) ==
    /\ pc[t] = "cas_path"
    /\ credentials_path' = frame[t].probed
    /\ UNCHANGED is_authenticated
    /\ AfterProbe(t, frame[t].probed # NoneStr)
    /\ UNCHANGED <<auth_process, master_fd, auth_url>>
    /\ UNCHANGED <<env, mon>>

\* --------------------------------------------------------- start_auth_flow

\* Line 166 without its check: no session is ever taken to be active.
never_running == FALSE

\* Lines 166 and 304 without the poll(): a recorded child counts as active.
recorded_not_polled == auth_process # None

\* self.auth_process and self.auth_process.poll() is None (line 166)
already_running == auth_process # None /\ auth_process \in running

\* Lines 165-167: the lock is taken; a session is active, the call returns
\* and releases the lock.
SafAlreadyRunning(t) ==
    /\ pc[t] = "saf"
    /\ auth_lock = None
    /\ already_running
    /\ ReturnVia(t, "already_running", Returned(FALSE, "<None>"))
    /\ UNCHANGED <<obj, env, mon>>

\* Lines 165-194: the lock is taken, a terminal pair is opened, the child is
\* launched, both handles are recorded, the monitor thread of the session is
\* started and the lock released.
SafSpawn(t) ==
    /\ pc[t] = "saf"
    /\ auth_lock = None
    /\ ~already_running
    /\ nsessions < MaxSessions
    /\ LET s == nsessions + 1 IN
       /\ nsessions' = s
       /\ auth_process' = s
       /\ master_fd' = s
       /\ running' = running \union {s}
       /\ open_fds' = open_fds \union {s}
       /\ mon_pc' = [mon_pc EXCEPT ![s] = "read"]
    /\ pty_out' = <<>>
    /\ menu_keys' = 0
    /\ menu_shown' = FALSE
    /\ ReturnVia(t, "spawned", Returned(FALSE, "<None>"))
    /\ UNCHANGED <<auth_url, is_authenticated, credentials_path, auth_lock>>
    /\ UNCHANGED <<files, emitted, menu_handled, mon_lines>>

\* The steps of lines 174-187 that can raise.
SpawnSteps == {"openpty", "Popen"}

\* Lines 174-187: pty.openpty raises, or subprocess.Popen does (the pair
\* that line 174 opened stays open: nothing closes it); the exception
\* leaves the with block (the lock is released) and the call.
SafSpawnFails(t) ==
    /\ pc[t] = "saf"
    /\ auth_lock = None
    /\ ~already_running
    /\ \E step \in SpawnSteps :
         IF step = "Popen"
         THEN /\ nsessions < MaxSessions
              /\ nsessions' = nsessions + 1
              /\ open_fds' = open_fds \union {nsessions + 1}
         ELSE UNCHANGED <<nsessions, open_fds>>
    /\ ReturnVia(t, "spawn_failed", Raised("OSError"))
    /\ UNCHANGED <<obj, files, running, pty_out, emitted, menu_keys, menu_shown, mon>>

\* --------------------------------------------------------- _monitor_output

\* The thread starts at the head of its loop: the checks it makes before
\* (lines 198-208: a session is recorded, its descriptor can be made
\* non-blocking) fail exactly when that of line 221 does, and end the thread
\* like it.

\* Lines 198-199, 221-222 and 268-270: master_fd is None, the thread ends.
MonFdGone(s) ==
    /\ mon_pc[s] = "read"
    /\ master_fd \in {None, Unset}
    /\ mon_pc' = [mon_pc EXCEPT ![s] = "done"]
    /\ menu_handled' = [menu_handled EXCEPT ![s] = FALSE]
    /\ UNCHANGED <<obj, env, mon_lines, thr>>

\* Line 226: os.read returns a chunk, line 237 splits it into lines.  (With
\* nothing to read os.read raises, and lines 227-230 retry: no change.)
MonReadChunk(s) ==
    /\ mon_pc[s] = "read"
    /\ master_fd \in open_fds
    /\ pty_out # <<>>
    /\ mon_lines' = [mon_lines EXCEPT ![s] = Head(pty_out)]
    /\ pty_out' = Tail(pty_out)
    /\ mon_pc' = [mon_pc EXCEPT ![s] = "line"]
    /\ UNCHANGED <<obj, files, nsessions, running, open_fds, emitted, menu_keys, menu_shown>>
    /\ UNCHANGED <<menu_handled, thr>>

\* Lines 232-234: the child has exited and os.read returns no bytes (a
\* platform where the master side reports end-of-stream; where it raises
\* EIO instead, lines 227-230 retry and nothing changes).
MonEof(s) ==
    /\ mon_pc[s] = "read"
    /\ master_fd \in open_fds
    /\ pty_out = <<>>
    /\ master_fd \notin running
    /\ mon_pc' = [mon_pc EXCEPT ![s] = "done"]
    /\ menu_handled' = [menu_handled EXCEPT ![s] = FALSE]
    /\ UNCHANGED <<obj, env, mon_lines, thr>>

\* Lines 255-261 for one line, then the next line of the chunk.
UrlAndNext(s) ==
    /\ LET u == found_url(Head(mon_lines[s])) IN
       auth_url' = IF u # NoneStr /\ is_login_url(u) THEN u ELSE auth_url
    /\ mon_lines' = [mon_lines EXCEPT ![s] = Tail(@)]
    /\ mon_pc' = [mon_pc EXCEPT ![s] = IF Tail(mon_lines[s]) = <<>> THEN "read" ELSE "line"]

\* Line 244: the menu phrase is seen for the first time; the thread sleeps
\* (line 246) before it writes.
MonMenuSeen(s) ==
    /\ mon_pc[s] = "line"
    /\ ~menu_handled[s] /\ has_menu(Head(mon_lines[s]))
    /\ mon_pc' = [mon_pc EXCEPT ![s] = "menu"]
    /\ UNCHANGED <<obj, env, menu_handled, mon_lines, thr>>

\* Lines 244-261 for a line that does not trigger the menu selection.
MonLine(s) ==
    /\ mon_pc[s] = "line"
    /\ ~(~menu_handled[s] /\ has_menu(Head(mon_lines[s])))
    /\ UrlAndNext(s)
    /\ UNCHANGED <<auth_process, master_fd, is_authenticated, credentials_path, auth_lock>>
    /\ UNCHANGED <<env, menu_handled, thr>>

\* Lines 247-249: "1\n" is written to the descriptor master_fd names now.
MonMenuWrite(s) ==
    /\ mon_pc[s] = "menu"
    /\ master_fd \in open_fds
    /\ menu_keys' = menu_keys + 1
    /\ menu_handled' = [menu_handled EXCEPT ![s] = TRUE]
    /\ UrlAndNext(s)
    /\ UNCHANGED <<auth_process, master_fd, is_authenticated, credentials_path, auth_lock>>
    /\ UNCHANGED <<files, nsessions, running, open_fds, pty_out, emitted, menu_shown, thr>>

\* Lines 248 and 268-270: master_fd is None by now, os.write raises
\* TypeError and the loop ends.
MonMenuWriteFails(s) ==
    /\ mon_pc[s] = "menu"
    /\ master_fd \notin open_fds
    /\ mon_pc' = [mon_pc EXCEPT ![s] = "done"]
    /\ mon_lines' = [mon_lines EXCEPT ![s] = <<>>]
    /\ menu_handled' = [menu_handled EXCEPT ![s] = FALSE]
    /\ UNCHANGED <<obj, env, thr>>


\* -------------------------------------------------------- _cleanup_process

\* Line 284 left out: master_fd keeps naming the closed descriptor.
master_fd_kept == master_fd

\* Line 284: what master_fd is set to once the descriptor is closed.
master_fd_after_close == None

\* `with self.auth_lock:` before a call of _cleanup_process (lines 352, 365
\* and 376 of submit_code, where cont names the path, and 384 of
\* force_terminate), then lines 279-284: the descriptor is closed and
\* master_fd set to None.
ClFd(t) ==
    /\ pc[t] = "lock_cleanup"
    /\ auth_lock = None
    /\ auth_lock' = t
    /\ IF master_fd \notin {Unset, None}
       THEN /\ open_fds' = open_fds \ {master_fd}
            /\ pty_out' = <<>>
            /\ master_fd' = master_fd_after_close
       ELSE UNCHANGED <<open_fds, pty_out, master_fd>>
    /\ pc' = [pc EXCEPT ![t] = "cl_proc"]
    /\ frame' = [frame EXCEPT ![t].cleaned = TRUE]
    /\ UNCHANGED result
    /\ UNCHANGED <<auth_process, auth_url, is_authenticated, credentials_path>>
    /\ UNCHANGED <<files, nsessions, running, emitted, menu_keys, menu_shown, mon>>

\* Lines 292 and 295 as `except OSError:`.
ExceptOSError(exc) == exc = "OSError"

\* The bare `except:` of lines 292 and 295 catches every exception.
BareExcept(exc) == TRUE

\* What terminate() and wait(timeout=2) can raise (lines 290-291): nothing
\* when the child exits in time, TimeoutExpired when it does not.
TerminateOutcomes == {"", "TimeoutExpired"}

\* Lines 289-296: exc raised by terminate/wait leaves _cleanup_process.
cleanup_raises(exc) == exc # "" /\ ~BareExcept(exc)

\* The return from _cleanup_process at each call site.
AfterCleanup(t) ==
    CASE frame[t].cont = "terminate" ->
           \* line 388, with the lock held
           Goto(t, "cas_read") /\ UNCHANGED auth_lock
      [] frame[t].cont = "sc_exc" ->
           \* lines 376-380
           /\ Return(t, Returned(FALSE, "Error submitting code: ..."))
           /\ auth_lock' = None
      [] OTHER ->
           \* lines 352-354 and 365-367
           /\ Return(t, Returned(TRUE, "Authentication successful."))
           /\ auth_lock' = None

\* An exception e leaves _cleanup_process in thread t; the lock is released.
CleanupRaises(t, e) ==
    CASE frame[t].cont = "terminate" ->
           Return(t, Raised(e)) /\ auth_lock' = None
      [] frame[t].cont = "sc_exc" ->
           \* lines 378-380: swallowed
           AfterCleanup(t)
      [] OTHER ->
           \* caught at line 373
           ScExcept(t) /\ auth_lock' = None

\* Lines 287-297: the child is terminated (killed when it does not exit in
\* time) and auth_process set to None; then the caller goes on.
ClProc(t) ==
    /\ pc[t] = "cl_proc"
    /\ \E exc \in TerminateOutcomes :
         IF auth_process = None
         THEN /\ UNCHANGED <<auth_process, running>>
              /\ AfterCleanup(t)
         ELSE /\ running' = running \ {auth_process}
              /\ IF cleanup_raises(exc)
                 THEN /\ UNCHANGED auth_process
                      /\ CleanupRaises(t, exc)
                 ELSE /\ auth_process' = None
                      /\ AfterCleanup(t)
    /\ UNCHANGED <<master_fd, auth_url, is_authenticated, credentials_path>>
    /\ UNCHANGED <<files, nsessions, open_fds, pty_out, emitted, menu_keys, menu_shown, mon>>

\* ------------------------------------------------------------- submit_code

\* Code strings, as sequences of characters.
Codes ==
    {<<>>, <<"\n">>, <<"4", "/", "x">>, <<"4", "/", "x", "\n">>,
     <<"\n", "x">>, <<"x", "\n", "\n">>, <<"e'">>}

\* The code of a request when its text does not matter.
DefaultCode == <<"4", "/", "x">>

\* str.encode('utf-8') of one character: "e'" (e with acute accent) takes
\* two bytes, the others one.
utf8(c) == IF c = "e'" THEN <<"0xC3", "0xA9">> ELSE <<c>>

\* code.encode('utf-8') (line 315)
RECURSIVE encode(_)
encode(code) ==
    IF code = <<>> THEN <<>> ELSE utf8(Head(code)) \o encode(Tail(code))

\* code.endswith('\n') (line 310)
endswith_newline(code) == code # <<>> /\ code[Len(code)] = "\n"

\* Lines 310-311 with the test left out: '\n' is always appended.
always_newline(code) == Append(code, "\n")

\* Lines 310-311: a line terminator is appended when the code has none.
with_newline(code) ==
    IF ~endswith_newline(code) THEN Append(code, "\n") ELSE code

\* Lines 303-305: the lock is taken; there is no child, or the child has
\* exited; the call returns and releases the lock.
ScNotRunning(t) ==
    /\ pc[t] = "sc_lock"
    /\ auth_lock = None
    /\ ~already_running
    /\ ReturnVia(t, "not_running", Returned(FALSE, "Auth process not running."))
    /\ UNCHANGED <<obj, env, mon>>

\* Lines 303-307: the lock is taken and a child is running.
ScGuardPasses(t) ==
    /\ pc[t] = "sc_lock"
    /\ auth_lock = None
    /\ already_running
    /\ IF master_fd = None
       THEN /\ ReturnVia(t, "not_open", Returned(FALSE, "PTY master not open."))
            /\ UNCHANGED auth_lock
       ELSE /\ Goto(t, "sc_write")
            /\ auth_lock' = t
    /\ UNCHANGED <<auth_process, master_fd, auth_url, is_authenticated, credentials_path>>
    /\ UNCHANGED <<env, mon>>

\* The polling loop placed inside the `with` block of line 303: thread t
\* still holds the lock when the loop begins.
lock_kept_after_write(t) == t

\* Line 326 is the last of the `with self.auth_lock:` block of line 303: the
\* lock is free when thread t goes on to line 328.
lock_after_write(t) == None

\* Lines 309-332: the code is written, the descriptor made non-blocking,
\* the lock released and start_time taken.
ScWrite(t) ==
    /\ pc[t] = "sc_write"
    /\ pc' = [pc EXCEPT ![t] = "sc_loop"]
    /\ frame' = [frame EXCEPT ![t].wrote_fd = master_fd, ![t].polls = 0,
                              ![t].writes = Append(@, encode(with_newline(frame[t].code)))]
    /\ auth_lock' = lock_after_write(t)
    /\ UNCHANGED result
    /\ UNCHANGED <<auth_process, master_fd, auth_url, is_authenticated, credentials_path>>
    /\ UNCHANGED <<env, mon>>

\* Lines 315-318: the child has exited since line 304 and os.write raises
\* OSError; the call returns and releases the lock.
ScWriteFails(t) ==
    /\ pc[t] = "sc_write"
    /\ master_fd \notin running
    /\ ReturnVia(t, "write_failed", Returned(FALSE, "Error writing to PTY: ..."))
    /\ auth_lock' = None
    /\ UNCHANGED <<auth_process, master_fd, auth_url, is_authenticated, credentials_path>>
    /\ UNCHANGED <<env, mon>>

\* Lines 335-339 and 361-363: the window has expired or master_fd is None,
\* and the Credential Probe is called; otherwise a read follows.
ScLoop(t) ==
    /\ pc[t] = "sc_loop"
    /\ IF frame[t].polls >= TimeoutPolls \/ master_fd \in {None, Unset}
       THEN GotoAt(t, "cas_read", "submit")
       ELSE Goto(t, "sc_read")
    /\ UNCHANGED <<obj, env, mon>>

\* Lines 341-359: one read of the descriptor master_fd names now.
\*   master_fd is None: os.read raises TypeError, caught at line 373;
\*   the descriptor is closed: os.read raises OSError, caught at line 355;
\*   a chunk with a success indicator: line 351 sleeps, cleanup follows;
\*   another chunk, or nothing to read: line 359 sleeps.
ScRead(t) ==
    /\ pc[t] = "sc_read"
    /\ IF master_fd \in {None, Unset}
       THEN /\ ScExcept(t)
            /\ UNCHANGED pty_out
       ELSE IF master_fd \in open_fds /\ pty_out # <<>>
       THEN /\ pty_out' = Tail(pty_out)
            /\ IF has_success_indicator(Head(pty_out))
               THEN GotoAt(t, "lock_cleanup", "indicator")
               ELSE /\ pc' = [pc EXCEPT ![t] = "sc_loop"]
                    /\ frame' = [frame EXCEPT ![t].polls = @ + 1]
                    /\ UNCHANGED result
       ELSE /\ pc' = [pc EXCEPT ![t] = "sc_loop"]
            /\ frame' = [frame EXCEPT ![t].polls = @ + 1]
            /\ UNCHANGED <<result, pty_out>>
    /\ UNCHANGED <<obj, files, nsessions, running, open_fds, emitted, menu_keys, menu_shown, mon>>

\* --------------------------------------------------------- force_terminate
\* Line 384 and lines 386-392 are ClFd, ClProc, CasRead and CasPath with
\* cont = "terminate", the lock held from ClFd to the return in CasPath.

\* ------------------------------------------------------------ HTTP handlers

\* auth_status (lines 405-411)
auth_status == [authenticated |-> is_authenticated, has_url |-> auth_url # NoneStr]

\* get_auth_url (lines 413-417)
get_auth_url ==
    IF auth_url # NoneStr THEN [status |-> 200, url |-> auth_url]
                          ELSE [status |-> 404, url |-> NoneStr]

\* Lines 426-430 taking only the final message for success.
submit_auth_code_strict(r) ==
    IF r.exc # "" THEN [status |-> 500, success |-> FALSE]
    ELSE IF r.ok /\ r.msg = "Authentication successful."
         THEN [status |-> 200, success |-> TRUE]
    ELSE [status |-> 400, success |-> FALSE]

\* submit_auth_code (lines 426-430) for the result r of submit_code
submit_auth_code(r) ==
    IF r.exc # "" THEN [status |-> 500, success |-> FALSE]
    ELSE IF r.ok THEN [status |-> 200, success |-> TRUE]
    ELSE [status |-> 400, success |-> FALSE]

\* The operations of the authenticator, and where each begins.
Operations == {"start_auth_flow", "submit_code", "force_terminate", "check_auth_status"}

\* check_auth_status beginning with the cleanup, as force_terminate does.
FirstPc_ProbeCleansUp(o) ==
    CASE o = "start_auth_flow" -> "saf"
      [] o = "submit_code" -> "sc_lock"
      [] o = "force_terminate" -> "lock_cleanup"
      [] o = "check_auth_status" -> "lock_cleanup"

FirstPc(o) ==
    CASE o = "start_auth_flow" -> "saf"
      [] o = "submit_code" -> "sc_lock"
      [] o = "force_terminate" -> "lock_cleanup"
      [] o = "check_auth_status" -> "cas_read"

FirstCont(o) ==
    CASE o = "force_terminate" -> "terminate"
      [] o = "check_auth_status" -> "direct"
      [] OTHER -> "none"

\* The module has been imported (lines 394-402 have run without raising)
\* and the server handles requests.
serving == pc[MainThread] = "done" /\ result[MainThread].exc = ""

\* A request thread that is free, or has returned from its last call, calls
\* operation o; submit_code is called with code c.
CallWith(t, o, c) ==
    /\ serving
    /\ pc[t] \in {"idle", "done"}
    /\ pc' = [pc EXCEPT ![t] = FirstPc(o)]
    /\ frame' = [frame EXCEPT ![t] =
          [NoFrame EXCEPT !.op = o, !.cont = FirstCont(o),
                          !.code = IF o = "submit_code" THEN c ELSE <<>>]]
    /\ result' = [result EXCEPT ![t] = NoResult]
    /\ UNCHANGED <<obj, env, mon>>

Call(t, o) == CallWith(t, o, DefaultCode)

\* submit_code(c) is called.
CallSubmit(t, c) == CallWith(t, "submit_code", c)

\* ------------------------------------------------------------- environment

\* The child of the latest session prints a chunk.
ChildEmits(c) ==
    /\ nsessions \in running
    /\ nsessions \in open_fds
    /\ emitted < MaxChunks
    /\ pty_out = <<>>
    /\ pty_out' = <<c>>
    /\ emitted' = emitted + 1
    /\ menu_shown' = (menu_shown \/ \E i \in 1..Len(c) : has_menu(c[i]))
    /\ UNCHANGED <<obj, files, nsessions, running, open_fds, menu_keys, mon, thr>>

\* The child of session s exits on its own.
ChildExits(s) ==
    /\ s \in running
    /\ running' = running \ {s}
    /\ UNCHANGED <<obj, files, nsessions, open_fds, pty_out, emitted, menu_keys, menu_shown, mon, thr>>

\* A running child completes the login and stores the credentials.
CredentialsStored ==
    /\ running # {}
    /\ files.oauth = Missing
    /\ files' = [files EXCEPT !.oauth = "{access_token}"]
    /\ UNCHANGED <<obj, nsessions, running, open_fds, pty_out, emitted, menu_keys, menu_shown, mon, thr>>

\* ------------------------------------------------------------ specification

ThreadStep(t) ==
    \/ CasRead(t) \/ CasPath(t)
    \/ SafAlreadyRunning(t) \/ SafSpawn(t) \/ SafSpawnFails(t)
    \/ ClFd(t) \/ ClProc(t)
    \/ ScNotRunning(t) \/ ScGuardPasses(t) \/ ScWrite(t) \/ ScWriteFails(t)
    \/ ScLoop(t) \/ ScRead(t)

MonitorStep(s) ==
    \/ MonFdGone(s) \/ MonReadChunk(s) \/ MonEof(s)
    \/ MonMenuSeen(s) \/ MonLine(s) \/ MonMenuWrite(s) \/ MonMenuWriteFails(s)

Next ==
    \/ \E t \in AllThreads : ThreadStep(t)
    \/ \E t \in RequestThreads : \E o \in Operations : Call(t, o)
    \/ \E s \in Sessions : MonitorStep(s)
    \/ \E c \in Chunks : ChildEmits(c)
    \/ \E s \in Sessions : ChildExits(s)
    \/ CredentialsStored

Spec == Init /\ [][Next]_vars

\* ------------------------------------------- the Credential Probe alone

\* Every state of the three credential files.
AllFiles ==
    [oauth : {Missing, Unreadable} \union OAuthTexts,
     settings : {Missing} \union SettingsTexts,
     accounts : {Missing, Unreadable} \union AccountsTexts]

\* The files change while no call of check_auth_status is in progress.
FilesChange(fs) ==
    /\ \A t \in AllThreads : pc[t] \notin {"cas_read", "cas_path"}
    /\ files' = fs
    /\ UNCHANGED <<obj, nsessions, running, open_fds, pty_out, emitted, menu_keys, menu_shown, mon, thr>>

InitProbe ==
    /\ InitObject
    /\ InitEnv
    /\ InitThreads
    /\ files \in AllFiles

\* check_auth_status at start-up (line 397) and called directly, in every
\* state of the files.
NextProbe ==
    \/ \E t \in AllThreads : CasRead(t) \/ CasPath(t)
    \/ \E t \in RequestThreads : Call(t, "check_auth_status")
    \/ \E fs \in AllFiles : FilesChange(fs)

SpecProbe == InitProbe /\ [][NextProbe]_vars

\* ------------------------------------- submit_code against force_terminate

\* Start-up, then one thread serving submit requests while another serves
\* terminate requests.
NextRace ==
    \/ \E t \in AllThreads :
          \/ CasRead(t) \/ CasPath(t)
          \/ SafSpawn(t) \/ SafSpawnFails(t)
          \/ ClFd(t) \/ ClProc(t)
          \/ ScNotRunning(t) \/ ScGuardPasses(t) \/ ScWrite(t) \/ ScWriteFails(t)
          \/ ScLoop(t) \/ ScRead(t)
    \/ \E t \in RequestThreads : Call(t, "submit_code")
    \/ Call(TerminateThread, "force_terminate")
    \/ \E s \in Sessions : MonitorStep(s)
    \/ \E c \in Chunks : ChildEmits(c)
    \/ \E s \in Sessions : ChildExits(s)
    \/ CredentialsStored

\* A thread that can take a step again and again takes one: the scheduler
\* runs every thread, and a thread waiting for auth_lock gets it in the end.
FairThreads == \A t \in AllThreads : SF_vars(ThreadStep(t))

SpecRace == Init /\ [][NextRace]_vars /\ FairThreads

\* ------------------------------------------------------- submit_code alone

\* Start-up followed by calls of submit_code with every code, the child
\* printing, exiting and storing the credentials meanwhile.
NextSubmit ==
    \/ \E t \in AllThreads :
          \/ CasRead(t) \/ CasPath(t)
          \/ SafSpawn(t) \/ SafSpawnFails(t)
          \/ ClFd(t) \/ ClProc(t)
          \/ ScNotRunning(t) \/ ScGuardPasses(t) \/ ScWrite(t) \/ ScWriteFails(t)
          \/ ScLoop(t) \/ ScRead(t)
    \/ \E t \in RequestThreads : \E c \in Codes : CallSubmit(t, c)
    \/ \E c \in Chunks : ChildEmits(c)
    \/ \E s \in Sessions : ChildExits(s)
    \/ CredentialsStored

SpecSubmit == Init /\ [][NextSubmit]_vars

\* ------------------------------------- check_auth_status against a session

\* Start-up, then one thread serving submit requests while another serves
\* status checks (a direct call of check_auth_status).
NextStatus ==
    \/ \E t \in AllThreads :
          \/ CasRead(t) \/ CasPath(t)
          \/ SafSpawn(t) \/ SafSpawnFails(t)
          \/ ClFd(t) \/ ClProc(t)
          \/ ScNotRunning(t) \/ ScGuardPasses(t) \/ ScWrite(t) \/ ScWriteFails(t)
          \/ ScLoop(t) \/ ScRead(t)
    \/ \E t \in RequestThreads : Call(t, "submit_code")
    \/ Call(TerminateThread, "check_auth_status")
    \/ \E s \in Sessions : MonitorStep(s)
    \/ \E c \in Chunks : ChildEmits(c)
    \/ \E s \in Sessions : ChildExits(s)
    \/ CredentialsStored

SpecStatus == Init /\ [][NextStatus]_vars

\* ------------------------------------------- the monitor and the cleanup

\* The steps of the monitor thread that every platform makes it take: all
\* but MonEof, which only a platform whose master side reports
\* end-of-stream after the child's exit ever takes (on Linux the read raises
\* EIO and lines 227-230 retry).
MonitorRuns(s) ==
    \/ MonFdGone(s) \/ MonReadChunk(s)
    \/ MonMenuSeen(s) \/ MonLine(s) \/ MonMenuWrite(s) \/ MonMenuWriteFails(s)

\* Start-up, the monitor of the session it starts, the child printing and
\* exiting, and force_terminate called on a request thread.
NextMonitor ==
    \/ \E t \in AllThreads :
          \/ CasRead(t) \/ CasPath(t)
          \/ SafSpawn(t) \/ SafSpawnFails(t)
          \/ ClFd(t) \/ ClProc(t)
    \/ Call(TerminateThread, "force_terminate")
    \/ \E s \in Sessions : MonitorStep(s)
    \/ \E c \in Chunks : ChildEmits(c)
    \/ \E s \in Sessions : ChildExits(s)

\* The scheduler runs the monitor thread as it runs every thread.
FairMonitor == \A s \in Sessions : WF_vars(MonitorRuns(s))

SpecMonitor == Init /\ [][NextMonitor]_vars /\ FairThreads /\ FairMonitor

\* ------------------------------------------- the monitor's line scanner

\* The child's output as characters.  A chunk is what one os.read returns
\* (line 226); the pieces below stand for the substrings the scanner's
\* tests tell apart, and a read can end between any two of them.
MaxStream == 3
Pieces ==
    {"https://", "accounts.", "google.com", "/auth", " ", "\n",
     "Login with ", "Google"}
Streams == UNION {[1..n -> Pieces] : n \in 1..MaxStream}

\* Every way the reads can cut a stream into non-empty chunks.
RECURSIVE Chunkings(_)
Chunkings(stream) ==
    IF stream = <<>> THEN {<<>>}
    ELSE UNION {{<<SubSeq(stream, 1, k)>> \o rest :
                    rest \in Chunkings(SubSeq(stream, k + 1, Len(stream)))} :
                k \in 1..Len(stream)}

\* The text of a sequence of pieces.
RECURSIVE join(_)
join(seq) == IF seq = <<>> THEN "" ELSE Head(seq) \o join(Tail(seq))

\* The concatenation of a sequence of chunks.
RECURSIVE concat(_)
concat(chunks) == IF chunks = <<>> THEN <<>> ELSE Head(chunks) \o concat(Tail(chunks))

\* output.splitlines() (line 237): the lines of one chunk, without their
\* terminators; a text that ends with a newline has no empty last line.
RECURSIVE splitlines(_)
splitlines(output) ==
    IF output = <<>> THEN <<>>
    ELSE LET ends == {i \in 1..Len(output) : output[i] = "\n"} IN
         IF ends = {} THEN <<output>>
         ELSE LET i == CHOOSE e \in ends : \A f \in ends : e <= f IN
              <<SubSeq(output, 1, i - 1)>> \o splitlines(SubSeq(output, i + 1, Len(output)))

\* "Login with Google" in clean_line (line 244)
menu_in(line) ==
    \E i \in 1..(Len(line) - 1) : line[i] = "Login with " /\ line[i + 1] = "Google"

\* url_pattern.search(clean_line) for r'(https://[^\s]+)' (lines 211, 255):
\* the leftmost "https://" followed by a character that is not white space,
\* up to the next white space or the end of the line; <<>> when none.
url_pattern_search(line) ==
    LET starts == {i \in 1..(Len(line) - 1) : line[i] = "https://" /\ line[i + 1] # " "} IN
    IF starts = {} THEN <<>>
    ELSE LET i == CHOOSE s \in starts : \A r \in starts : s <= r
             stops == {j \in (i + 1)..Len(line) : line[j] = " "}
             j == IF stops = {} THEN Len(line)
                  ELSE (CHOOSE s \in stops : \A r \in stops : s <= r) - 1
         IN  SubSeq(line, i, j)

\* "google.com" in found_url or "accounts" in found_url (line 259)
has_domain_hint(url) ==
    \E k \in 1..Len(url) : url[k] \in {"google.com", "accounts."}

\* Lines 238-261 for one line: st holds auth_url, menu_handled and the
\* number of "1\n" written.
scan_line(st, line) ==
    LET select == ~st.menu_handled /\ menu_in(line)
        m == url_pattern_search(line)
    IN  [auth_url |-> IF m # <<>> /\ has_domain_hint(m) THEN join(m) ELSE st.auth_url,
         menu_handled |-> (st.menu_handled \/ select),
         menu_keys |-> IF select THEN st.menu_keys + 1 ELSE st.menu_keys]

\* The for loop of line 237 over the lines of one chunk.
RECURSIVE scan_lines(_, _)
scan_lines(st, lines) ==
    IF lines = <<>> THEN st
    ELSE scan_lines(scan_line(st, Head(lines)), Tail(lines))

\* The while loop of lines 218-261 over the chunks the reads return: each
\* chunk is split and scanned on its own, nothing is carried over from one
\* chunk to the next.
RECURSIVE monitor_scan(_, _)
monitor_scan(st, chunks) ==
    IF chunks = <<>> THEN st
    ELSE monitor_scan(scan_lines(st, splitlines(Head(chunks))), Tail(chunks))

\* The child of the session prints a stream, which reaches the monitor cut
\* into chunks.
ChildWrites(chunks) ==
    /\ nsessions \in running
    /\ nsessions \in open_fds
    /\ emitted = 0
    /\ pty_out = <<>>
    /\ pty_out' = chunks
    /\ emitted' = Len(chunks)
    /\ UNCHANGED <<obj, files, nsessions, running, open_fds, menu_keys, menu_shown, mon, thr>>

\* The monitor of session s reads and scans every pending chunk.
MonScan(s) ==
    /\ mon_pc[s] = "read"
    /\ master_fd \in open_fds
    /\ pty_out # <<>>
    /\ LET st == monitor_scan([auth_url |-> auth_url,
                               menu_handled |-> menu_handled[s],
                               menu_keys |-> menu_keys], pty_out) IN
       /\ auth_url' = st.auth_url
       /\ menu_handled' = [menu_handled EXCEPT ![s] = st.menu_handled]
       /\ menu_keys' = st.menu_keys
    /\ pty_out' = <<>>
    /\ UNCHANGED <<auth_process, master_fd, is_authenticated, credentials_path, auth_lock>>
    /\ UNCHANGED <<files, nsessions, running, open_fds, emitted, menu_shown>>
    /\ UNCHANGED <<mon_pc, mon_lines, thr>>

\* Start-up, then the child of the session prints one stream, cut in every
\* way, and the monitor scans it.
NextScan ==
    \/ \E t \in AllThreads : CasRead(t) \/ CasPath(t) \/ SafSpawn(t) \/ SafSpawnFails(t)
    \/ \E stream \in Streams : \E chunks \in Chunkings(stream) : ChildWrites(chunks)
    \/ \E s \in Sessions : MonScan(s)

SpecScan == Init /\ [][NextScan]_vars

\* ------------------------------------------------- generate and its cleaner

\* The prompt of the request, and the lines the chat child can print: the
\* echoed prompt, an answer line, a blank line and the two kinds of noise.
MaxLines == 3
Prompt == "hi"
OutputLines == {"hi", "ok", " ", "[STARTUP] boot", "Loaded cached credentials."}
Outputs == UNION {[1..n -> OutputLines] : n \in 0..MaxLines}

\* l.startswith('[STARTUP]') or l.startswith('Loaded cached credentials')
\* (lines 95-98)
is_noise(l) == l \in {"[STARTUP] boot", "Loaded cached credentials."}

\* The loop of lines 93-103 from a given value of removed_prompt: the lines
\* appended to cleaned_lines.
RECURSIVE cleaned_lines(_, _, _)
cleaned_lines(lines, prompt, removed_prompt) ==
    IF lines = <<>> THEN <<>>
    ELSE LET l == strip(Head(lines)) IN
         IF is_noise(l) THEN cleaned_lines(Tail(lines), prompt, removed_prompt)
         ELSE IF prompt # "" /\ ~removed_prompt /\ l = strip(prompt)
              THEN cleaned_lines(Tail(lines), prompt, TRUE)
         ELSE <<Head(lines)>> \o cleaned_lines(Tail(lines), prompt, removed_prompt)

\* '\n'.join(cleaned_lines).strip() (line 105), as lines: the blank lines at
\* both ends are gone.
RECURSIVE strip_text(_)
strip_text(lines) ==
    IF lines = <<>> THEN <<>>
    ELSE IF strip(Head(lines)) = "" THEN strip_text(Tail(lines))
    ELSE IF strip(lines[Len(lines)]) = "" THEN strip_text(SubSeq(lines, 1, Len(lines) - 1))
    ELSE lines

\* clean_gemini_output (lines 83-105) on a text given as its lines:
\* removed_prompt starts False in every call.
clean_gemini_output(lines, prompt) == strip_text(cleaned_lines(lines, prompt, FALSE))

\* generate_output (lines 611-686): every line read is cleaned by a call of
\* its own (line 677, and line 664 for the last one) and sent when what is
\* left is not empty.
RECURSIVE generate_output(_, _)
generate_output(lines, prompt) ==
    IF lines = <<>> THEN <<>>
    ELSE clean_gemini_output(<<Head(lines)>>, prompt) \o generate_output(Tail(lines), prompt)

\* POST /api/generate (lines 532-727) on request thread t: the child prints
\* out and exits with status 0; the response is streamed or not.
generate(t, out, stream) ==
    /\ serving
    /\ pc[t] \in {"idle", "done"}
    /\ pc' = [pc EXCEPT ![t] = "done"]
    /\ frame' = [frame EXCEPT ![t] =
          [NoFrame EXCEPT !.op = "generate", !.stdout = out, !.stream = stream,
                          !.writes = IF stream THEN generate_output(out, Prompt)
                                     ELSE clean_gemini_output(out, Prompt)]]
    /\ result' = [result EXCEPT ![t] = Returned(TRUE, "<response>")]
    /\ UNCHANGED <<obj, env, mon>>

\* Start-up, then requests to generate with every output of the child.
NextGenerate ==
    \/ \E t \in AllThreads : CasRead(t) \/ CasPath(t) \/ SafSpawn(t) \/ SafSpawnFails(t)
    \/ \E t \in RequestThreads : \E out \in Outputs : \E stream \in BOOLEAN :
          generate(t, out, stream)

SpecGenerate == Init /\ [][NextGenerate]_vars

\* --------------------------------------------------- test_credentials.py

\* The handlers of check_credentials: `except json.JSONDecodeError` (line
\* 61), `except (PermissionError, OSError)` (line 65) and
\* `except (PermissionError, OSError, json.JSONDecodeError)` (line 95).
ExceptOSErrors(exc) == exc \in {"PermissionError", "OSError"}
ExceptOSErrorsOrDecode(exc) == exc \in {"PermissionError", "OSError", "JSONDecodeError"}

\* Lines 39-66 of test_credentials.py: "true", "next", or the exception that
\* leaves the block.
TestPrimaryBlock(oauth) ==
    LET body ==
          IF ~isfile(oauth) THEN "next"
          ELSE IF oauth = Unreadable THEN "PermissionError"
          ELSE IF strip(oauth) = "" THEN "next"
          ELSE LET data == json_loads(strip(oauth)) IN
               IF data.exc # ""
               THEN (IF ExceptJSONDecodeError(data.exc) THEN "next" ELSE data.exc)
               ELSE IF data.type = "int" THEN "TypeError"
               ELSE IF \E k \in {"access_token", "refresh_token", "id_token", "token_type"} :
                          contains(k, data) = "yes"
                    THEN "true"
               \* line 60: list(data.keys())
               ELSE IF data.type # "dict" THEN "AttributeError"
               ELSE "next"
    IN  IF body \in {"true", "next"} THEN body
        ELSE IF ExceptOSErrors(body) THEN "next" ELSE body

\* Lines 69-96 of test_credentials.py, likewise.
TestFallbackBlock(settings, accounts) ==
    LET body ==
          IF ~isfile(accounts) THEN "next"
          ELSE IF accounts = Unreadable THEN "PermissionError"
          ELSE IF strip(accounts) = "" THEN "next"
          ELSE LET data == json_loads(strip(accounts)) IN
               IF data.exc # "" THEN data.exc
               ELSE IF contains("active", data) = "TypeError" THEN "TypeError"
               ELSE IF contains("active", data) = "no" THEN "next"
               ELSE IF data.type # "dict" THEN "TypeError"
               ELSE IF data.active # "" /\ isfile(settings) THEN "true" ELSE "next"
    IN  IF body \in {"true", "next"} THEN body
        ELSE IF ExceptOSErrorsOrDecode(body) THEN "next" ELSE body

\* check_credentials as a function of the files: the exception that leaves
\* the call ("" when none), the verdict and the path returned.
check_credentials(fs) ==
    LET p == TestPrimaryBlock(fs.oauth)
        f == TestFallbackBlock(fs.settings, fs.accounts)
    IN  IF p = "true" THEN [exc |-> "", ret |-> TRUE, path |-> oauth_creds_path]
        ELSE IF p # "next" THEN [exc |-> p, ret |-> FALSE, path |-> NoneStr]
        ELSE IF f = "true" THEN [exc |-> "", ret |-> TRUE, path |-> accounts_path]
        ELSE IF f # "next" THEN [exc |-> f, ret |-> FALSE, path |-> NoneStr]
        ELSE [exc |-> "", ret |-> FALSE, path |-> NoneStr]

\* The script is run (main, lines 105-111) on the files as they are; t
\* stands for its process.
TestCredentials(t) ==
    /\ pc[t] = "idle"
    /\ pc' = [pc EXCEPT ![t] = "done"]
    /\ frame' = [frame EXCEPT ![t] = [NoFrame EXCEPT !.op = "check_credentials"]]
    /\ LET r == check_credentials(files) IN
       result' = [result EXCEPT ![t] =
          IF r.exc # "" THEN Raised(r.exc) ELSE Returned(r.ret, r.path)]
    /\ UNCHANGED <<obj, env, mon>>

\* check_auth_status at start-up and called directly, and the test script,
\* in every state of the files.
NextCredentials ==
    \/ \E t \in AllThreads : CasRead(t) \/ CasPath(t)
    \/ \E t \in RequestThreads : Call(t, "check_auth_status")
    \/ TestCredentials(TerminateThread)
    \/ \E fs \in AllFiles : FilesChange(fs)

SpecCredentials == InitProbe /\ [][NextCredentials]_vars

\* ------------------------------------------ every operation, two threads

\* Start-up, then two request threads, each calling any operation of the
\* authenticator, while the child prints its success line, exits, or stores
\* the credentials.  (The monitor thread never takes auth_lock and is left
\* out here; SpecRace has it.)
NextAll ==
    \/ \E t \in AllThreads : ThreadStep(t)
    \/ \E t \in RequestThreads \union {TerminateThread} :
          \E o \in Operations : Call(t, o)
    \/ ChildEmits(<<SuccessLine>>)
    \/ \E s \in Sessions : ChildExits(s)
    \/ CredentialsStored

SpecAll == Init /\ [][NextAll]_vars /\ FairThreads

\* ================================================================ properties

\* Thread t returns from the call of operation o in this step.
ReturnsFrom(t, o) == pc[t] # "done" /\ pc'[t] = "done" /\ frame[t].op = o

Success == Returned(TRUE, "Authentication successful.")
Pending == Returned(TRUE, "Code submitted. Verifying...")

\* The pairs of a child that runs and a terminal descriptor that is open.
LivePairs == running \intersect open_fds

\* ----------------------------------------------------------------------- C1

\* C1, as stated: at most one child/descriptor pair is live at any time, and
\* every start_auth_flow call made when an earlier call has recorded a
\* session that no cleanup has cleared (auth_process is not None) leaves
\* auth_process and master_fd as they were.
C1_EveryLaterCallIsNoOp ==
    /\ [](Cardinality(LivePairs) <= 1)
    /\ [][\A t \in AllThreads :
            (ReturnsFrom(t, "start_auth_flow") /\ auth_process # None)
            => (auth_process' = auth_process /\ master_fd' = master_fd)]_vars

\* C1, amended: at most one pair of a running child and its open descriptor
\* is live at any time, and every start_auth_flow call made while the
\* recorded child is still running is a no-op: auth_process and master_fd
\* stay as they were and no session is spawned.
C1_SingleSession ==
    /\ [](Cardinality(LivePairs) <= 1)
    /\ [][\A t \in AllThreads :
            (ReturnsFrom(t, "start_auth_flow")
                /\ auth_process # None /\ auth_process \in running)
            => (auth_process' = auth_process /\ master_fd' = master_fd
                /\ nsessions' = nsessions)]_vars

\* A call of start_auth_flow has returned while the session was running.
C1_Witness ==
    \E t \in RequestThreads :
        /\ pc[t] = "done" /\ frame[t].op = "start_auth_flow"
        /\ frame[t].cont = "already_running"
        /\ auth_process \in LivePairs

\* ----------------------------------------------------------------------- C2

\* C2: within one session (the first, where a recorded URL can only be that
\* session's), once auth_url holds a login URL no later line changes it.
C2_FirstUrlWins ==
    [][(nsessions = 1 /\ nsessions' = 1 /\ auth_url # NoneStr)
        => auth_url' = auth_url]_vars

\* ----------------------------------------------------------------------- C3

\* Nothing the child printed is unread or being processed, and the
\* descriptor of the latest session is the recorded one and open.
MenuSettled ==
    /\ pty_out = <<>>
    /\ \A s \in Sessions : mon_pc[s] \notin {"line", "menu"}
    /\ master_fd = nsessions /\ master_fd \in open_fds

\* C3: in one session "1\n" is written at most once, and once the output
\* with the menu phrase has been consumed while the descriptor is still
\* open, it has been written exactly once.
C3_MenuOnce ==
    /\ menu_keys <= 1
    /\ (menu_shown /\ MenuSettled) => menu_keys = 1

\* ----------------------------------------------------------------------- C4

\* C4: a call of _cleanup_process never raises and leaves master_fd and
\* auth_process None.
C4_CleanupLeavesNone ==
    [][\A t \in AllThreads :
          (pc[t] = "cl_proc" /\ pc'[t] # "cl_proc")
          => /\ master_fd' = None /\ auth_process' = None
             /\ result'[t].exc = ""
             /\ (frame[t].cont # "sc_exc" => frame'[t].cont # "sc_exc")]_vars

\* ----------------------------------------------------------------------- C5

\* The primary file is missing, empty or malformed.
PrimaryUnusable == files.oauth \in {Missing, "", " ", "{bad"}

\* settings.json exists and google_accounts.json names an active account.
ValidFallbackPair ==
    /\ files.settings # Missing
    /\ files.accounts \in {"{active:a@b}"}

\* C5: check_auth_status never raises, whatever the files hold; and when
\* the primary file is missing, empty or malformed and there is no valid
\* fallback pair it returns False and credentials_path is None.
C5_ProbeNeverThrows ==
    /\ [](\A t \in AllThreads : result[t].exc = "")
    /\ [][\A t \in AllThreads :
            (pc[t] = "cas_path" /\ pc'[t] # "cas_path")
            => /\ frame[t].probed # "unset"
               /\ credentials_path' = frame[t].probed
               /\ (frame[t].cont = "direct"
                     => result'[t] = Returned(frame[t].probed # NoneStr, "<bool>"))
               /\ (PrimaryUnusable /\ ~ValidFallbackPair)
                     => (frame[t].probed = NoneStr /\ ~is_authenticated')]_vars

\* A direct call has returned False on a malformed primary file.
C5_Witness ==
    \E t \in RequestThreads :
        /\ pc[t] = "done" /\ frame[t].op = "check_auth_status"
        /\ files.oauth = "{bad" /\ ~ValidFallbackPair
        /\ result[t] = Returned(FALSE, "<bool>")
        /\ credentials_path = NoneStr

\* ----------------------------------------------------------------------- C6

\* C6: a submit_code call that wrote the code, read no success indicator in
\* its window and whose probe at the end reported authenticated returns
\* (True, "Authentication successful.") with the session cleaned up.
C6_VerificationFallback ==
    [][\A t \in AllThreads :
          (ReturnsFrom(t, "submit_code") /\ frame[t].probed \notin {"unset", NoneStr})
          => /\ result'[t] = Success
             /\ frame[t].cleaned
             /\ master_fd' = None /\ auth_process' = None]_vars

\* submit_code has returned success by the probe at the end of the window.
C6_Witness ==
    \E t \in RequestThreads :
        /\ pc[t] = "done" /\ frame[t].op = "submit_code"
        /\ frame[t].cont = "submit"
        /\ result[t] = Success
        /\ master_fd = None /\ auth_process = None

\* ----------------------------------------------------------------------- C7

\* C7: when submit_code returns success after its loop read a success
\* indicator, is_authenticated is true.
C7_IndicatorMarksAuthenticated ==
    [][\A t \in AllThreads :
          (ReturnsFrom(t, "submit_code") /\ frame[t].cont = "indicator"
              /\ result'[t] = Success)
          => (is_authenticated' /\ auth_status'.authenticated)]_vars

\* ----------------------------------------------------------------------- C8

\* C8: whenever submit_code returns (True, "Authentication successful."),
\* master_fd and auth_process are None at the moment of return.
C8_SuccessReleasesHandles ==
    [][\A t \in AllThreads :
          (ReturnsFrom(t, "submit_code") /\ result'[t] = Success)
          => (master_fd' = None /\ auth_process' = None)]_vars

\* submit_code has returned success after reading a success indicator.
C8_Witness ==
    \E t \in RequestThreads :
        /\ pc[t] = "done" /\ frame[t].op = "submit_code"
        /\ frame[t].cont = "indicator"
        /\ result[t] = Success
        /\ master_fd = None /\ auth_process = None

\* ----------------------------------------------------------------------- C9

C10_SoftFailToPending ==
    [][\A t \in AllThreads :
          (ReturnsFrom(t, "submit_code") /\ frame[t].probed = NoneStr)
          => /\ result'[t] = Pending
             /\ submit_auth_code(result'[t]) = [status |-> 200, success |-> TRUE]]_vars

\* submit_code has returned "pending" with the credentials still absent.
C10_Witness ==
    \E t \in RequestThreads :
        /\ pc[t] = "done" /\ frame[t].op = "submit_code"
        /\ frame[t].cont = "submit"
        /\ result[t] = Pending
        /\ ~is_authenticated

\* ---------------------------------------------------------------------- C11

\* C11: when submit_code takes the lock and there is no active child
\* (auth_process is None or the child has exited), it returns
\* (False, "Auth process not running.") having written nothing, and leaves
\* auth_process, master_fd, auth_url and is_authenticated as they were.
C11_SubmitGuard ==
    [][\A t \in AllThreads :
          (pc[t] = "sc_lock" /\ pc'[t] # "sc_lock"
              /\ (auth_process = None \/ auth_process \notin running))
          => /\ pc'[t] = "done"
             /\ result'[t] = Returned(FALSE, "Auth process not running.")
             /\ frame[t].writes = <<>>
             /\ auth_lock' = None
             /\ UNCHANGED <<auth_process, master_fd, auth_url, is_authenticated>>]_vars

\* submit_code has been refused on a session whose child had exited.
C11_Witness ==
    \E t \in RequestThreads :
        /\ pc[t] = "done" /\ frame[t].op = "submit_code"
        /\ frame[t].cont = "not_running"
        /\ result[t] = Returned(FALSE, "Auth process not running.")
        /\ auth_process # None /\ auth_process \notin running

\* ---------------------------------------------------------------------- C12

\* The UTF-8 bytes of the code, followed by '\n' unless the code ends
\* with '\n'.
ExpectedBytes(code) ==
    IF Len(code) > 0 /\ code[Len(code)] = "\n"
    THEN encode(code)
    ELSE encode(code) \o <<"\n">>

\* C12: a submit_code call that passed the guard has made exactly one
\* write, of the code followed by '\n' when it did not end with one and of
\* the code as it is otherwise; before that it has made none.
C12_OneWrite ==
    \A t \in RequestThreads :
        (frame[t].op = "submit_code" /\ pc[t] # "done")
        => IF pc[t] \in {"sc_lock", "sc_write"}
           THEN frame[t].writes = <<>>
           ELSE frame[t].writes = <<ExpectedBytes(frame[t].code)>>

\* A code that already ends with '\n' has been written as it is.
C12_Witness ==
    \E t \in RequestThreads :
        /\ pc[t] = "sc_loop"
        /\ frame[t].code = <<"4", "/", "x", "\n">>
        /\ frame[t].writes = <<frame[t].code>>
        /\ frame[t].wrote_fd \in running

\* ---------------------------------------------------------------------- C13

\* C13: in whatever state force_terminate is called, on return master_fd
\* and auth_process are None, and the success flag returned is the result
\* of the probe made after the cleanup.
C13_TerminateCleansUp ==
    [][\A t \in AllThreads :
          ReturnsFrom(t, "force_terminate")
          => /\ frame[t].cleaned
             /\ master_fd' = None /\ auth_process' = None
             /\ result'[t].exc = ""
             /\ result'[t].ok = (frame[t].probed \notin {"unset", NoneStr})]_vars

\* ---------------------------------------------------------------------- C15

\* The files hold credentials the probe accepts: a token key in
\* oauth_creds.json, or settings.json with an active account.
CredentialsOnDisk ==
    \/ files.oauth \in {"{access_token}", "{refresh_token}"}
    \/ files.settings # Missing /\ files.accounts = "{active:a@b}"

\* C15: is_authenticated goes from false to true only in a step of
\* check_auth_status that read credentials from the files; in particular
\* no step in which a child exits sets it.
C15_AuthenticatedOnlyByProbe ==
    [][(~is_authenticated /\ is_authenticated')
        => /\ CredentialsOnDisk
           /\ running' = running
           /\ \E t \in AllThreads : pc[t] = "cas_read" /\ pc'[t] = "cas_path"]_vars

\* The probe has set the flag after a child stored the credentials and
\* exited.
C15_Witness ==
    /\ is_authenticated /\ CredentialsOnDisk
    /\ nsessions >= 1 /\ running = {}
    /\ \E t \in RequestThreads : pc[t] = "cas_path" /\ frame[t].probed = oauth_creds_path

\* ---------------------------------------------------------------------- C16

\* Some thread reads or writes descriptor d in this step: lines 226 and
\* 248 of the monitor, lines 315 and 341 of submit_code.
UsesDescriptor(d) ==
    /\ master_fd = d
    /\ \/ \E t \in AllThreads : pc[t] \in {"sc_write", "sc_read"} /\ pc'[t] # pc[t]
       \/ \E s \in Sessions : mon_pc[s] \in {"read", "menu"} /\ mon_pc'[s] # mon_pc[s]

\* C16: no thread reads or writes the descriptor of a session whose child
\* has exited or whose descriptor has been closed.
C16_NoUseAfterTermination ==
    [][\A d \in Sessions :
          UsesDescriptor(d) => (d \in running /\ d \in open_fds)]_vars

\* ---------------------------------------------------------------------- C14

\* Thread t is in submit_code's verification loop and the descriptor it
\* wrote the code to has been closed.
Cancelled(t) ==
    /\ frame[t].op = "submit_code"
    /\ pc[t] \in {"sc_loop", "sc_read"}
    /\ frame[t].wrote_fd \notin open_fds

\* C14: once force_terminate has closed the descriptor while a thread is
\* in submit_code's verification loop, that thread completes no further
\* polling iteration, and its submit_code call returns.
C14_Cancellation ==
    /\ [][\A t \in RequestThreads :
            Cancelled(t) => frame'[t].polls # frame[t].polls + 1]_vars
    /\ \A t \in RequestThreads : Cancelled(t) ~> (pc[t] = "done")

\* A submit_code call is in its loop, with iterations left, when
\* force_terminate has closed the descriptor.
C14_Witness ==
    \E t \in RequestThreads :
        /\ Cancelled(t) /\ frame[t].polls < TimeoutPolls
        /\ frame[TerminateThread].op = "force_terminate"
        /\ frame[TerminateThread].cleaned

\* ---------------------------------------------------------------------- C17

\* C17: at initialisation the probe runs once, a session is started if
\* and only if it reports unauthenticated, and when it reports
\* authenticated initialisation ends with no child and no terminal.
C17_StartupPolicy ==
    /\ [][pc'[MainThread] = "cas_read" => pc[MainThread] = "cas_read"]_vars
    /\ [][(pc[MainThread] = "cas_path" /\ pc'[MainThread] # "cas_path")
            => /\ (pc'[MainThread] = "saf") <=> (frame[MainThread].probed = NoneStr)
               /\ (frame[MainThread].probed # NoneStr)
                     => /\ pc'[MainThread] = "done"
                        /\ nsessions' = 0 /\ open_fds' = {} /\ running' = {}
                        /\ auth_process' = None]_vars
    /\ [][(pc[MainThread] = "saf" /\ pc'[MainThread] # "saf")
            => (nsessions = 0 /\ pc'[MainThread] = "done")]_vars

\* Initialisation has ended on valid credentials without a session.
C17_Witness ==
    /\ pc[MainThread] = "done"
    /\ result[MainThread] = Returned(TRUE, "Initial Auth Check Passed.")
    /\ is_authenticated
    /\ nsessions = 0 /\ auth_process = None

\* ---------------------------------------------------------------------- C18

\* C18: whatever fails inside them, submit_code and force_terminate end
\* with a (flag, message) pair and never with an exception.
C18_NoExceptionEscapes ==
    \A t \in AllThreads :
        frame[t].op \in {"submit_code", "force_terminate"} => result[t].exc = ""

\* A read on a descriptor force_terminate had invalidated failed inside
\* submit_code, which returned a failure pair.
C18_Witness ==
    \E t \in RequestThreads :
        /\ pc[t] = "done" /\ frame[t].op = "submit_code"
        /\ frame[t].cont = "sc_exc"
        /\ result[t] = Returned(FALSE, "Error submitting code: ...")

\* ---------------------------------------------------------------------- C19

\* C19: when terminal allocation or the launch of the child fails in
\* start_auth_flow, the process does not crash (at start-up the exception
\* does not leave the module), the lock is released, no descriptor the
\* attempt opened stays open and no handle of the attempt is recorded.
C19_SpawnFailureContained ==
    [][\A t \in AllThreads :
          (pc[t] = "saf" /\ pc'[t] = "done" /\ frame'[t].cont = "spawn_failed")
          => /\ auth_lock' = None
             /\ open_fds' = open_fds
             /\ auth_process' = auth_process /\ master_fd' = master_fd
             /\ (t = MainThread => result'[t].exc = "")]_vars

\* ---------------------------------------------------------------------- C20

\* C20: every open descriptor is the current master_fd (none is left
\* behind by the way its session ended), and _cleanup_process never
\* closes a descriptor that is already closed.
C20_ExactlyOnceRelease ==
    /\ [](\A d \in open_fds : d = master_fd)
    /\ [][\A t \in AllThreads :
            (pc[t] = "lock_cleanup" /\ pc'[t] = "cl_proc"
                /\ master_fd \notin {None, Unset})
            => master_fd \in open_fds]_vars

\* ---------------------------------------------------------------------- C21

\* The primary file parses as key-value data (an object) holding a token key.
KeyValueTokens == files.oauth \in {"{access_token}", "{refresh_token}"}

\* C21: check_auth_status records the primary path exactly when the primary
\* file is key-value data with an access-token or refresh-token key;
\* otherwise the accounts path exactly when settings.json exists and
\* google_accounts.json parses with a non-empty active account; otherwise
\* None; it returns True exactly when it records a path, and
\* is_authenticated equals the value returned.
C21_ProbeDecision ==
    [][\A t \in AllThreads :
          (pc[t] = "cas_path" /\ pc'[t] # "cas_path")
          => /\ (credentials_path' = oauth_creds_path <=> KeyValueTokens)
             /\ (credentials_path' = accounts_path
                   <=> (~KeyValueTokens /\ ValidFallbackPair))
             /\ (credentials_path' = NoneStr
                   <=> (~KeyValueTokens /\ ~ValidFallbackPair))
             /\ is_authenticated' = (credentials_path' # NoneStr)
             /\ (frame[t].cont = "direct"
                   => result'[t] = Returned(is_authenticated', "<bool>"))]_vars

\* ---------------------------------------------------------------------- C22

\* C22: when _cleanup_process has run, on the success path, the timeout
\* path or in force_terminate, auth_url is None: /api/auth/status reports
\* has_url false and /api/auth/url answers 404.
C22_UrlClearedAtSessionEnd ==
    [][\A t \in AllThreads :
          (pc[t] = "cl_proc" /\ pc'[t] # "cl_proc")
          => /\ auth_url' = NoneStr
             /\ ~auth_status'.has_url
             /\ get_auth_url'.status = 404]_vars

\* ---------------------------------------------------------------------- C23

\* Thread t is inside a direct call of check_auth_status.
Probing(t) == frame[t].op = "check_auth_status" /\ pc[t] \notin {"idle", "done"}

\* C23: a call of check_auth_status, in every state of the session and of
\* the lock, can always take its next step (it never waits for auth_lock),
\* and its steps leave auth_process, master_fd, auth_url, the lock, the
\* descriptors, the terminal's pending output and the keystrokes sent to
\* the child unchanged.
C23_ProbeLeavesSession ==
    /\ [](\A t \in AllThreads : Probing(t) => ENABLED ThreadStep(t))
    /\ [][\A t \in AllThreads :
            (Probing(t) /\ pc'[t] # pc[t])
            => UNCHANGED <<auth_process, master_fd, auth_url, auth_lock,
                           open_fds, pty_out, menu_keys, running>>]_vars

\* A direct call has returned while a session was running and another
\* thread, inside submit_code, held the lock.
C23_Witness ==
    \E t \in AllThreads : \E u \in AllThreads :
        /\ pc[t] = "done" /\ frame[t].op = "check_auth_status"
        /\ result[t] = Returned(is_authenticated, "<bool>")
        /\ pc[u] = "sc_write" /\ auth_lock = u
        /\ auth_process # None /\ master_fd \in open_fds

\* ---------------------------------------------------------------------- C24

\* Thread t is in submit_code's verification phase: between two reads of
\* the loop (line 359 sleeps), about to read, or in the settle delay of
\* line 351 that precedes the cleanup.
Verifying(t) ==
    /\ frame[t].op = "submit_code"
    /\ \/ pc[t] \in {"sc_loop", "sc_read"}
       \/ pc[t] = "lock_cleanup" /\ frame[t].cont = "indicator"

\* C24: a thread in submit_code's verification phase does not hold
\* auth_lock: the lock is free or held by another thread.
C24_LockFreeWhileVerifying ==
    \A t \in AllThreads : Verifying(t) => auth_lock # t

\* submit_code is polling while force_terminate, called on another thread,
\* holds the lock.
C24_Witness ==
    \E t \in AllThreads :
        /\ Verifying(t) /\ pc[t] = "sc_loop"
        /\ auth_lock = TerminateThread
        /\ frame[TerminateThread].op = "force_terminate"

\* ---------------------------------------------------------------------- C25

\* The step is taken by a thread that holds auth_lock: it held the lock
\* before the step, holds it after, or the step is the whole `with` block
\* of start_auth_flow.
StepUnderLock ==
    \E t \in AllThreads :
        /\ pc'[t] # pc[t]
        /\ auth_lock = t \/ auth_lock' = t \/ pc[t] = "saf"

\* C25: once the server handles requests, every step that changes
\* auth_process, master_fd, auth_url, is_authenticated or credentials_path,
\* and every write of a keystroke to the terminal, is taken by a thread
\* that holds auth_lock.
C25_MutationsUnderLock ==
    [][(serving /\ (\/ auth_process' # auth_process
                    \/ master_fd' # master_fd
                    \/ auth_url' # auth_url
                    \/ is_authenticated' # is_authenticated
                    \/ credentials_path' # credentials_path
                    \/ menu_keys' # menu_keys))
       => StepUnderLock]_vars

\* ---------------------------------------------------------------------- C26

\* C26: no thread runs the Credential Probe (check_auth_status) while it
\* holds auth_lock.
C26_ProbeOutsideLock ==
    \A t \in AllThreads : pc[t] \in {"cas_read", "cas_path"} => auth_lock # t

\* ---------------------------------------------------------------------- C27

\* C27: when submit_code writes a code to the terminal of a session, the
\* monitor has already written the menu-selection keystroke to that
\* terminal.
C27_MenuBeforeCode ==
    [][\A t \in AllThreads :
          (pc[t] = "sc_write" /\ pc'[t] = "sc_loop" /\ master_fd = nsessions)
          => menu_keys >= 1]_vars

\* ---------------------------------------------------------------------- C28

\* The descriptor the monitor reads is invalid (None, or closed), or its
\* child has exited and everything it printed has been read.
DescriptorDead ==
    \/ master_fd \notin open_fds
    \/ master_fd \notin running /\ pty_out = <<>>

\* C28: once the descriptor the monitor reads is invalid, or its child has
\* exited with nothing left to read, the monitor thread ends.
C28_MonitorTerminates ==
    \A s \in Sessions :
        (mon_pc[s] = "read" /\ DescriptorDead) ~> (mon_pc[s] = "done")

\* ---------------------------------------------------------------------- C29

\* C29: on every path into _cleanup_process, when the child is about to be
\* asked to terminate its terminal descriptor is already closed and
\* master_fd is None; the child is stopped and auth_process set to None
\* only by that later step of the thread that closed the descriptor.
C29_CleanupOrder ==
    /\ [](\A t \in AllThreads :
            pc[t] = "cl_proc"
            => /\ master_fd \in {None, Unset}
               /\ auth_lock = t
               /\ auth_process # None => auth_process \notin open_fds)
    /\ [][(auth_process # None /\ auth_process' = None)
          => /\ master_fd = None /\ auth_process \notin open_fds
             /\ auth_process \notin running'
             /\ \E t \in AllThreads :
                  pc[t] = "cl_proc" /\ pc'[t] # "cl_proc" /\ frame[t].cleaned]_vars

\* On submit_code's success path the descriptor of a live session has been
\* closed and its child, still running, is about to be terminated.
C29_Witness ==
    \E t \in AllThreads :
        /\ pc[t] = "cl_proc" /\ frame[t].cont = "indicator"
        /\ auth_process # None /\ auth_process \in running
        /\ master_fd = None /\ auth_process \notin open_fds

\* ---------------------------------------------------------------------- C30

\* C30: however the child's output is cut into chunks, the monitor records
\* the URL and sends the keystrokes that a scan of the lines of the whole
\* stream gives.
C30_LineBuffering ==
    [][\A s \in Sessions :
          (mon_pc[s] = "read" /\ pty_out # <<>> /\ pty_out' = <<>>)
          => LET whole == scan_lines([auth_url |-> auth_url,
                                      menu_handled |-> menu_handled[s],
                                      menu_keys |-> menu_keys],
                                     splitlines(concat(pty_out)))
             IN  /\ auth_url' = whole.auth_url
                 /\ menu_keys' = whole.menu_keys]_vars

\* ---------------------------------------------------------------------- C31

\* C31: when the write of the code in submit_code fails, or the write of
\* the menu keystroke in the monitor fails, the session is ended:
\* _cleanup_process has run and master_fd and auth_process are None.
C31_WriteFailureCleansUp ==
    [][/\ \A t \in AllThreads :
            (pc[t] = "sc_write" /\ pc'[t] = "done"
                /\ frame'[t].cont = "write_failed")
            => (master_fd' = None /\ auth_process' = None)
       /\ \A s \in Sessions :
            (mon_pc[s] = "menu" /\ mon_pc'[s] = "done")
            => (master_fd' = None /\ auth_process' = None)]_vars

\* ---------------------------------------------------------------------- C32

\* The lines of a text that equal the prompt.
PromptLines(lines) == SelectSeq(lines, LAMBDA l : l = Prompt)

\* C32: in the response to a generate request, streamed or not, the lines
\* equal to the prompt are those the child printed less the first one.
C32_FirstEchoOnly ==
    \A t \in RequestThreads :
        (frame[t].op = "generate" /\ pc[t] = "done")
        => LET echoed == PromptLines(frame[t].stdout) IN
           PromptLines(frame[t].writes)
             = IF echoed = <<>> THEN <<>> ELSE Tail(echoed)

\* ---------------------------------------------------------------------- C33

\* C33: in every state of the three files check_credentials returns the
\* verdict and the path that check_auth_status gives for the same files.
C33_ScriptMimicsProbe ==
    [][\A t \in AllThreads :
          (pc[t] = "idle" /\ pc'[t] = "done" /\ frame'[t].op = "check_credentials")
          => result'[t] = Returned(Probe(files).ret, Probe(files).path)]_vars

\* ---------------------------------------------------------------------- C34

\* The places where a thread is about to take auth_lock: line 165 of
\* start_auth_flow, line 303 of submit_code, and the `with self.auth_lock:`
\* before each call of _cleanup_process.
AtAcquire(t) == pc[t] \in {"saf", "sc_lock", "lock_cleanup"}

\* Thread t is not inside a call.
Outside(t) == pc[t] \in {"idle", "done"}

\* C34: no thread is about to take auth_lock while it holds it, no thread
\* holds it once its call has returned or raised, and every call returns.
C34_DeadlockFree ==
    /\ [](\A t \in AllThreads : (AtAcquire(t) \/ Outside(t)) => auth_lock # t)
    /\ \A t \in AllThreads : (~Outside(t)) ~> (pc[t] = "done")

\* Both request threads have returned, one from a submit_code that cleaned
\* up and the other from force_terminate, and the lock is free.
C34_Witness ==
    \E t \in AllThreads : \E u \in AllThreads :
        /\ pc[t] = "done" /\ frame[t].op = "submit_code"
        /\ result[t] = Returned(TRUE, "Authentication successful.")
        /\ pc[u] = "done" /\ frame[u].op = "force_terminate"
        /\ auth_lock = None

\* ---------------------------------------------------------------------- C35

\* C35: the monitor thread of session s takes output from, and writes its
\* keystroke to, the descriptor of session s only, and submit_code reads
\* only the descriptor it wrote the code to.
C35_LoopsKeepToTheirSession ==
    [][/\ \A s \in Sessions :
            (mon_pc'[s] # mon_pc[s] /\ mon_pc[s] \in {"read", "menu"}
                /\ (pty_out' # pty_out \/ menu_keys' # menu_keys))
            => master_fd = s
       /\ \A t \in AllThreads :
            (pc[t] = "sc_read" /\ pc'[t] # pc[t] /\ pty_out' # pty_out)
            => master_fd = frame[t].wrote_fd]_vars

\* ---------------------------------------------------------------------- C36

\* Thread t has written its code and its window has not expired, and a
\* chunk with a success indicator is waiting on the descriptor it wrote to.
IndicatorInWindow(t) ==
    /\ frame[t].op = "submit_code"
    /\ pc[t] \in {"sc_loop", "sc_read"}
    /\ frame[t].polls < TimeoutPolls
    /\ master_fd = frame[t].wrote_fd /\ master_fd \in open_fds
    /\ pty_out # <<>> /\ has_success_indicator(Head(pty_out))

\* Thread t has written its code and the child has printed nothing yet.
CodeWritten(t) ==
    /\ frame[t].op = "submit_code" /\ pc[t] = "sc_loop"
    /\ emitted = 0

\* C36: when the child prints its success indicator after a code has been
\* written, and the chunk is there within the window of a submit_code call,
\* the call returns (True, "Authentication successful.") (unless
\* force_terminate is called meanwhile).
C36_IndicatorDetected ==
    \A t \in RequestThreads :
        [](CodeWritten(t)
            => [](IndicatorInWindow(t)
                    => <>(\/ pc[t] = "done"
                             /\ result[t] = Returned(TRUE, "Authentication successful.")
                          \/ pc[TerminateThread] # "idle")))

\* ---------------------------------------------------------------------- C37

\* C37: whenever no check_auth_status call is in progress, is_authenticated
\* is true exactly when credentials_path is not None, whatever calls ran
\* concurrently while the credential files changed.
C37_ProbeResultConsistent ==
    (\A t \in AllThreads : pc[t] \notin {"cas_read", "cas_path"})
        => (is_authenticated <=> credentials_path # NoneStr)

====
